---- MODULE Spec2Model ----
(***************************************************************************)
(* State-machine model of src/dashboard.js: the two electrolyzer           *)
(* dashboards.  Lines 1-307 are the first dashboard ("page A": state,      *)
(* interval, chart1, chart2); lines 309-902 are the second ("page B":      *)
(* simulationState, simulationInterval, productionChart, efficiencyChart). *)
(* A browser session runs one of them; the variable page says which.       *)
(*                                                                         *)
(* Numbers.  JavaScript numbers are modelled in fixed point, the unit of   *)
(* each field chosen so that the formulas of the source stay exact on the  *)
(* inputs used; a product that does not divide evenly is rounded down:     *)
(*   powerInput, solar, wind, grid         tenths of a MW                  *)
(*   loadFactor, load, targetPressure      whole units                     *)
(*   efficiency, temperature, pressure,                                    *)
(*   cost, powerConsumption, storageLevel  hundredths                      *)
(*   purity                                ten-thousandths of a percent    *)
(*   h2Production, flowRate                thousandths of a kg/h           *)
(*   storageAmount                         thousandths of a kg             *)
(* A value of Math.random() is an integer number of hundredths, 0..99.     *)
(*                                                                         *)
(* The DOM text nodes are written by the handlers but never read back by   *)
(* them; they are not part of the state modelled here, except the value of *)
(* the mode selector (operatingMode) and the children of the two event     *)
(* logs (log on page A, eventLog on page B), newest first.  A log entry is *)
(* held as its parts: the time stamp, the CSS type, the fixed text of the  *)
(* message and the name or number the message embeds.  Page A stamps its   *)
(* entries with the wall clock, which is left out.                         *)
(***************************************************************************)
EXTENDS Integers, Sequences, FiniteSets

VARIABLES
    page,                \* "A" or "B": which dashboard this session runs
    timers,              \* the browser's active interval timers (their ids)
    state,               \* page A: let state (lines 2-10)
    interval,            \* page A: let interval (line 12); 0 is undefined
    chart1,              \* page A: chart1.data (labels, datasets[0], datasets[1])
    chart2,              \* page A: chart2.data
    simulationState,     \* page B: let simulationState (lines 314-342)
    simulationInterval,  \* page B: let simulationInterval (line 367); 0 is undefined
    productionChart,     \* page B: productionChart.data
    efficiencyChart,     \* page B: efficiencyChart.data
    operatingMode,       \* page B: operatingMode.value, the mode selector
    log,                 \* page A: the children of #log, first child first
    eventLog,            \* page B: the children of eventLog, first child first
    calls,               \* history: calculatePlantState calls made by the last handler
    ticks,               \* history: timer callbacks run since the last Reset
    edits,               \* history: control edits made since the page loaded
    appended,            \* history: every chart sample appended since the page loaded or B was reset
    logged               \* history: every entry put in the log since the page loaded or B was reset

vars == <<page, timers, state, interval, chart1, chart2, simulationState,
          simulationInterval, productionChart, efficiencyChart, operatingMode,
          log, eventLog, calls, ticks, edits, appended, logged>>

varsA == <<state, interval, chart1, chart2, log>>

varsB == <<simulationState, simulationInterval, productionChart,
           efficiencyChart, operatingMode, eventLog>>

(***************************************************************************)
(* Bounds of the model.                                                    *)
(***************************************************************************)
\* Simulated seconds explored with every noise draw and every edit enabled.
MaxTime == 3
\* Simulated seconds explored in the long runs that fill the chart buffers.
MaxTimeLong == 111
\* Simulated seconds explored in the runs that plot a first point.
MaxTimeMid == 7
\* Control edits (setter, mode change, scenario, emergency stop) in a short run.
MaxEdits == 1
\* Timer callbacks page B has run, undisturbed, before a nearly-full run starts.
NearFullTime == 6943
\* Timer callbacks page B has run, undisturbed, before a run that crosses
\* its first minute starts.
NearMinuteTime == 58
\* Control edits in a run that crosses the first minute.
MaxEditsMinute == 2
\* The alert specification starts after this many quiet ticks, two before
\* the storage level first passes 95 %, and runs this many further ticks
\* with this many control edits.
NearAlertTime == 5557
MaxTimeAlerts == 4
MaxEditsAlerts == 2
\* Control edits in a long run.
MaxEditsLong == 1
\* Button entries shown in the log beyond which the runs that do not fill
\* the log press no further Start, Pause or Run button.
MaxEvents == 4
\* The same in the long runs.
MaxEventsLong == 2
\* The same in the runs around the first minute.
MaxEventsMinute == 3
\* Entries logged since the log was last cleared in the runs that fill it
\* (page B, page A), and the ticks of page B's clock in those runs.
MaxLogged == 52
MaxLoggedA == 21
MaxTimeLog == 2
\* Interval timers the browser can hold at once.
MaxTimers == 2

TimerIds == 1..MaxTimers

(***************************************************************************)
(* Program constants.                                                      *)
(***************************************************************************)
\* const MAX_STORAGE = 5000 (kg)
MAX_STORAGE == 5000
\* "Keep only last 20 data points": the literal 20 of updateChartData and updateCharts
HISTORY_CAP == 20
\* "Update charts every 5 seconds": the literal 5 in both timer callbacks
CHART_PERIOD == 5
\* "Keep only last 20 entries": the literal 20 of addLog
LOG_CAP == 20
\* "Keep only last 50 entries": the literal 50 of logEvent
EVENT_CAP == 50

(***************************************************************************)
(* Number formatting and the browser's timers.                             *)
(***************************************************************************)
Min(a, b) == IF a <= b THEN a ELSE b

Max(a, b) == IF a >= b THEN a ELSE b

\* Number.prototype.toFixed: x, held in 1/unit parts, rounded to the nearest
\* multiple of unit/keep parts (half away from zero), result in 1/keep parts.
ToFixed(x, unit, keep) ==
    LET step == unit \div keep
        mag  == IF x >= 0 THEN x ELSE 0 - x
        r    == (mag + step \div 2) \div step
    IN  IF x >= 0 THEN r ELSE 0 - r

\* `${Math.floor(time / 60)}m`: the label is held as its number of minutes.
TimeLabel(t) == t \div 60

\* setInterval: a handle no active timer has.  The browser never reuses a
\* handle; the model reuses a cleared one, which no variable still refers to
\* as a live timer because the only holder is overwritten at every creation.
SetInterval(ts) ==
    CHOOSE id \in TimerIds \ ts : \A j \in TimerIds \ ts : id <= j

\* clearInterval(h): a handle that names no active timer is ignored.
ClearInterval(ts, h) == ts \ {h}

Push(s, x) == Append(s, x)

Shift(s) == Tail(s)

(***************************************************************************)
(* The event logs (lines 187-201 and 668-687).                             *)
(***************************************************************************)
\* The hours, minutes and seconds logEvent formats into timeStr.
TimeStr(t) == <<t \div 3600, (t % 3600) \div 60, t % 60>>

\* An entry of page B's log: `message` is the fixed text, `name` the mode or
\* scenario name it embeds ("" if none), `value` the number it embeds, in
\* tenths (0 if none).
EventEntry(t, type, message, name, value) ==
    [time |-> TimeStr(t), type |-> type, message |-> message,
     name |-> name, value |-> value]

\* An entry of page A's log.
LogEntry(message, name) == [message |-> message, name |-> name]

\* parent.insertBefore(entry, parent.firstChild)
InsertFirst(children, entry) == <<entry>> \o children

\* while (children.length > cap) removeChild(lastChild)
RemoveLastWhileOver(children, cap) ==
    IF Len(children) > cap THEN SubSeq(children, 1, cap) ELSE children

\* logEvent evicting with removeChild(firstChild): the newest entry goes.
LogEventDropNewest(children, entry) ==
    LET all == InsertFirst(children, entry)
    IN  IF Len(all) > EVENT_CAP
        THEN SubSeq(all, Len(all) - EVENT_CAP + 1, Len(all))
        ELSE all

\* function logEvent(message, type), on the children of eventLog
LogEvent(children, entry) ==
    RemoveLastWhileOver(InsertFirst(children, entry), EVENT_CAP)

\* function addLog(message), on the children of #log
AddLog(children, entry) ==
    RemoveLastWhileOver(InsertFirst(children, entry), LOG_CAP)

\* The logEvent calls of one handler, in call order.
RECURSIVE LogEvents(_, _)
LogEvents(children, entries) ==
    IF entries = <<>> THEN children
    ELSE LogEvents(LogEvent(children, Head(entries)), Tail(entries))

\* The last cap entries of a record of insertions, the latest first.
NewestFirst(entries, cap) ==
    [i \in 1..Min(cap, Len(entries)) |-> entries[Len(entries) - i + 1]]

(***************************************************************************)
(* Page B: the plant model (lines 530-611) and the chart buffer            *)
(* (lines 826-856).                                                        *)
(***************************************************************************)
ModesB == {"steady", "variable", "optimized", "carbon"}

\* The result of a division by zero (Infinity or NaN): a value no finite
\* cost takes, a finite cost being positive when the efficiency is.
NonFinite == -1

EmptyHistory ==
    [time |-> <<>>, power |-> <<>>, production |-> <<>>,
     efficiency |-> <<>>, cost |-> <<>>]

EmptyChart == [labels |-> <<>>, d0 |-> <<>>, d1 |-> <<>>]

\* let simulationState = { ... }
InitialSimulationState ==
    [isRunning |-> FALSE, time |-> 0,
     powerInput |-> 1000, loadFactor |-> 100, targetPressure |-> 50,
     mode |-> "steady",
     h2Production |-> 1000000, temperature |-> 7520,
     powerConsumption |-> 5230, purity |-> 999700, efficiency |-> 6850,
     flowRate |-> 950000, cost |-> 28500, storageLevel |-> 7500,
     storageAmount |-> 3750000, pressure |-> 5000,
     history |-> EmptyHistory]

\* The four Math.random() draws of one calculatePlantState call, in call order.
Draws(R) == [temperature : R, efficiency : R, purity : R, pressure : R]

\* baseProduction * efficiency / 100, with the efficiency the state holds
\* when the call starts.
H2Production(power, loadFactor, efficiency) ==
    (power * loadFactor * efficiency) \div 1000

\* baseCost * (70 / efficiency) * (1 + (targetPressure - 30) / 100)
Cost(efficiency, targetPressure) ==
    IF efficiency = 0 THEN NonFinite
    ELSE (1750000 * (70 + targetPressure)) \div efficiency

\* The storage update without its Math.min.
StorageAfterUncapped(storageAmount, h2Production) ==
    storageAmount + h2Production \div 3600

\* Math.min(storageAmount + h2Production / 3600, MAX_STORAGE)
StorageAfter(storageAmount, h2Production) ==
    Min(storageAmount + h2Production \div 3600, MAX_STORAGE * 1000)

\* calculatePlantState computing the efficiency before the production, so
\* that the production uses the efficiency of this call.
CalculatePlantStateNewEfficiency(s, n) ==
    LET power == s.powerInput
        eff   == 7000 - s.loadFactor * 5 + n.efficiency * 2
        h2    == H2Production(power, s.loadFactor, eff)
        stor  == StorageAfter(s.storageAmount, h2)
    IN  [s EXCEPT
           !.h2Production = h2,
           !.powerConsumption = (power * s.loadFactor * 95) \div 1000,
           !.temperature = 6500 + s.loadFactor * 15 + n.temperature * 2,
           !.efficiency = eff,
           !.purity = 999500 + n.purity * 4,
           !.flowRate = (h2 * 95) \div 100,
           !.cost = Cost(eff, s.targetPressure),
           !.storageAmount = stor,
           !.storageLevel = (stor * 10) \div MAX_STORAGE,
           !.pressure = s.targetPressure * 100 + n.pressure * 2 - 100]

\* calculatePlantState taking the flow rate from the production the state
\* held before the call.
CalculatePlantStateStaleFlow(s, n) ==
    LET power == s.powerInput
        h2    == H2Production(power, s.loadFactor, s.efficiency)
        eff   == 7000 - s.loadFactor * 5 + n.efficiency * 2
        stor  == StorageAfter(s.storageAmount, h2)
    IN  [s EXCEPT
           !.h2Production = h2,
           !.powerConsumption = (power * s.loadFactor * 95) \div 1000,
           !.temperature = 6500 + s.loadFactor * 15 + n.temperature * 2,
           !.efficiency = eff,
           !.purity = 999500 + n.purity * 4,
           !.flowRate = (s.h2Production * 95) \div 100,
           !.cost = Cost(eff, s.targetPressure),
           !.storageAmount = stor,
           !.storageLevel = (stor * 10) \div MAX_STORAGE,
           !.pressure = s.targetPressure * 100 + n.pressure * 2 - 100]

\* calculatePlantState with the efficiency falling by 15 per unit of load,
\* as the temperature rises, instead of 5.
CalculatePlantStateSteep(s, n) ==
    LET power == s.powerInput
        h2    == H2Production(power, s.loadFactor, s.efficiency)
        eff   == 7000 - s.loadFactor * 15 + n.efficiency * 2
        stor  == StorageAfter(s.storageAmount, h2)
    IN  [s EXCEPT
           !.h2Production = h2,
           !.powerConsumption = (power * s.loadFactor * 95) \div 1000,
           !.temperature = 6500 + s.loadFactor * 15 + n.temperature * 2,
           !.efficiency = eff,
           !.purity = 999500 + n.purity * 4,
           !.flowRate = (h2 * 95) \div 100,
           !.cost = Cost(eff, s.targetPressure),
           !.storageAmount = stor,
           !.storageLevel = (stor * 10) \div MAX_STORAGE,
           !.pressure = s.targetPressure * 100 + n.pressure * 2 - 100]

\* function calculatePlantState(), with the draws n
CalculatePlantState(s, n) ==
    LET power == s.powerInput
        h2    == H2Production(power, s.loadFactor, s.efficiency)
        eff   == 7000 - s.loadFactor * 5 + n.efficiency * 2
        stor  == StorageAfter(s.storageAmount, h2)
    IN  [s EXCEPT
           !.h2Production = h2,
           !.powerConsumption = (power * s.loadFactor * 95) \div 1000,
           !.temperature = 6500 + s.loadFactor * 15 + n.temperature * 2,
           !.efficiency = eff,
           !.purity = 999500 + n.purity * 4,
           !.flowRate = (h2 * 95) \div 100,
           !.cost = Cost(eff, s.targetPressure),
           !.storageAmount = stor,
           !.storageLevel = (stor * 10) \div MAX_STORAGE,
           !.pressure = s.targetPressure * 100 + n.pressure * 2 - 100]

\* addVariability without the Math.max / Math.min of its variable case.
AddVariabilityUnclamped(s, r) ==
    CASE s.mode = "variable" ->
           [s EXCEPT !.powerInput = s.powerInput + (r * 2 - 100)]
      [] s.mode = "optimized" ->
           IF s.time % 60 = 0 /\ r > 70
           THEN [s EXCEPT !.powerInput = (s.powerInput * 8) \div 10]
           ELSE s
      [] s.mode = "carbon" ->
           IF s.time % 60 = 0 /\ r > 50
           THEN [s EXCEPT !.powerInput =
                    Min(2000, (s.powerInput * 11) \div 10)]
           ELSE s
      [] OTHER -> s

\* addVariability without the time % 60 test of its optimized case.
AddVariabilityEveryTick(s, r) ==
    CASE s.mode = "variable" ->
           [s EXCEPT !.powerInput =
               Max(200, Min(2000, s.powerInput + (r * 2 - 100)))]
      [] s.mode = "optimized" ->
           IF r > 70
           THEN [s EXCEPT !.powerInput = (s.powerInput * 8) \div 10]
           ELSE s
      [] s.mode = "carbon" ->
           IF s.time % 60 = 0 /\ r > 50
           THEN [s EXCEPT !.powerInput =
                    Min(2000, (s.powerInput * 11) \div 10)]
           ELSE s
      [] OTHER -> s

\* function addVariability(), with r the one Math.random() it may draw
AddVariability(s, r) ==
    CASE s.mode = "variable" ->
           [s EXCEPT !.powerInput =
               Max(200, Min(2000, s.powerInput + (r * 2 - 100)))]
      [] s.mode = "optimized" ->
           IF s.time % 60 = 0 /\ r > 70
           THEN [s EXCEPT !.powerInput = (s.powerInput * 8) \div 10]
           ELSE s
      [] s.mode = "carbon" ->
           IF s.time % 60 = 0 /\ r > 50
           THEN [s EXCEPT !.powerInput =
                    Min(2000, (s.powerInput * 11) \div 10)]
           ELSE s
      [] OTHER -> s

\* The five values updateChartData pushes.
SampleB(s) ==
    [time |-> TimeLabel(s.time),
     power |-> ToFixed(s.powerInput, 10, 10),
     production |-> ToFixed(s.h2Production, 1000, 1),
     efficiency |-> ToFixed(s.efficiency, 100, 10),
     cost |-> IF s.cost = NonFinite THEN NonFinite
              ELSE ToFixed(s.cost, 100, 1)]

\* updateChartData without its eviction: the history grows without bound.
PushHistoryUnbounded(h, x) ==
    [time |-> Push(h.time, x.time),
     power |-> Push(h.power, x.power),
     production |-> Push(h.production, x.production),
     efficiency |-> Push(h.efficiency, x.efficiency),
     cost |-> Push(h.cost, x.cost)]

\* updateChartData evicting with pop() for shift(): the newest sample goes.
PushHistoryDropNewest(h, x) ==
    LET pushed == PushHistoryUnbounded(h, x)
    IN  IF Len(pushed.time) > HISTORY_CAP
        THEN [f \in DOMAIN pushed |-> SubSeq(pushed[f], 1, HISTORY_CAP)]
        ELSE pushed

\* The push and the "> 20" eviction of updateChartData, on the history record.
PushHistory(h, x) ==
    LET pushed == [time |-> Push(h.time, x.time),
                   power |-> Push(h.power, x.power),
                   production |-> Push(h.production, x.production),
                   efficiency |-> Push(h.efficiency, x.efficiency),
                   cost |-> Push(h.cost, x.cost)]
    IN  IF Len(pushed.time) > HISTORY_CAP
        THEN [time |-> Shift(pushed.time),
              power |-> Shift(pushed.power),
              production |-> Shift(pushed.production),
              efficiency |-> Shift(pushed.efficiency),
              cost |-> Shift(pushed.cost)]
        ELSE pushed

\* function updateChartData(): the state part
UpdateChartData(s) ==
    [s EXCEPT !.history = PushHistory(s.history, SampleB(s))]

\* productionChart.data after updateChartData: the history arrays themselves
ProductionChartOf(h) ==
    [labels |-> h.time, d0 |-> h.power, d1 |-> h.production]

\* efficiencyChart.data after updateChartData
EfficiencyChartOf(h) ==
    [labels |-> h.time, d0 |-> h.efficiency, d1 |-> h.cost]

(***************************************************************************)
(* Page B: the handlers.                                                   *)
(***************************************************************************)
ScenarioNames == {"renewable-drop", "peak-demand", "emergency"}

\* logEvent('System initialized - Ready for operation', 'info') at load
InitializedEntry ==
    EventEntry(0, "info", "System initialized - Ready for operation", "", 0)

\* logEvent('Simulation STARTED', 'success')
StartedEntry(s) == EventEntry(s.time, "success", "Simulation STARTED", "", 0)

\* What pauseSimulation() logs: 'Simulation PAUSED' if it was running.
PausedEntries(s) ==
    IF s.isRunning
    THEN <<EventEntry(s.time, "warning", "Simulation PAUSED", "", 0)>>
    ELSE <<>>

\* 'System RESET - Ready for operation' at 00:00:00: the entry the innerHTML
\* of resetSimulation holds, and the one its logEvent adds at time 0.
ResetEntry ==
    EventEntry(0, "info", "System RESET - Ready for operation", "", 0)

\* e.target.value.toUpperCase() of the mode selector
ModeUpperCase(m) ==
    CASE m = "steady" -> "STEADY"
      [] m = "variable" -> "VARIABLE"
      [] m = "optimized" -> "OPTIMIZED"
      [] m = "carbon" -> "CARBON"

\* logEvent(`Operating mode changed to: ${...}`, 'info')
ModeEntry(s, m) ==
    EventEntry(s.time, "info", "Operating mode changed to: ",
               ModeUpperCase(m), 0)

\* scenarioName.toUpperCase().replace('-', ' ')
ScenarioTitle(name) ==
    CASE name = "renewable-drop" -> "RENEWABLE DROP"
      [] name = "peak-demand" -> "PEAK DEMAND"
      [] name = "emergency" -> "EMERGENCY"

\* What loadScenario logs, in call order.
ScenarioEntries(s, name) ==
    <<EventEntry(s.time, "info", "Loading scenario: ", ScenarioTitle(name), 0)>>
    \o CASE name = "renewable-drop" ->
             <<EventEntry(s.time, "warning",
                 "Renewable power dropped to 40 MW - Testing response", "", 0)>>
          [] name = "peak-demand" ->
             <<EventEntry(s.time, "info",
                 "Peak demand scenario - Maximum production mode", "", 0)>>
          [] name = "emergency" ->
             PausedEntries(s)
             \o <<EventEntry(s.time, "error",
                    "EMERGENCY SHUTDOWN initiated - All systems offline", "", 0)>>

\* checkAlerts with else-if between its three tests.
CheckAlertsFirstOnly(s) ==
    IF s.temperature > 8500
    THEN <<EventEntry(s.time, "warning", "High temperature detected: ", "",
                      ToFixed(s.temperature, 100, 10))>>
    ELSE IF s.storageLevel > 9500
    THEN <<EventEntry(s.time, "warning", "Storage nearly full: ", "",
                      ToFixed(s.storageLevel, 100, 10))>>
    ELSE IF s.efficiency < 6000
    THEN <<EventEntry(s.time, "warning", "Low efficiency: ", "",
                      ToFixed(s.efficiency, 100, 10))>>
    ELSE <<>>

\* function checkAlerts(): what it logs, in call order
CheckAlerts(s) ==
    (IF s.temperature > 8500
     THEN <<EventEntry(s.time, "warning", "High temperature detected: ", "",
                       ToFixed(s.temperature, 100, 10))>>
     ELSE <<>>)
    \o (IF s.storageLevel > 9500
        THEN <<EventEntry(s.time, "warning", "Storage nearly full: ", "",
                          ToFixed(s.storageLevel, 100, 10))>>
        ELSE <<>>)
    \o (IF s.efficiency < 6000
        THEN <<EventEntry(s.time, "warning", "Low efficiency: ", "",
                          ToFixed(s.efficiency, 100, 10))>>
        ELSE <<>>)

\* A pause that also rewinds the clock.
PausedAtZero(s) == [s EXCEPT !.isRunning = FALSE, !.time = 0]

\* pauseSimulation() on the state record: isRunning = false when it was true
Paused(s) == [s EXCEPT !.isRunning = FALSE]

\* A pause that leaves its timer running.
PausedTimersKept(s, ts, h) == ts

\* pauseSimulation() on the timers: clearInterval(simulationInterval), only
\* inside its if (simulationState.isRunning)
PausedTimers(s, ts, h) == IF s.isRunning THEN ClearInterval(ts, h) ELSE ts

\* A control handler that recomputes whether or not the simulation runs.
RecomputeAlways(s, n) == CalculatePlantState(s, n)

\* The tail every control handler shares:
\* if (simulationState.isRunning) { calculatePlantState(); updateDisplay(); }
RecomputeIfRunning(s, n) == IF s.isRunning THEN CalculatePlantState(s, n) ELSE s

CallsIfRunning(s) == IF s.isRunning THEN 1 ELSE 0

\* An edit of a control: the history variables it moves.
Edit ==
    /\ edits' = edits + 1
    /\ UNCHANGED <<page, ticks, appended>>

\* startSimulation() without its if (!simulationState.isRunning).
StartSimulationUnguarded ==
    /\ page = "B"
    /\ TimerIds \ timers # {}
    /\ simulationState' = [simulationState EXCEPT !.isRunning = TRUE]
    /\ simulationInterval' = SetInterval(timers)
    /\ timers' = timers \cup {SetInterval(timers)}
    /\ eventLog' = LogEvent(eventLog, StartedEntry(simulationState))
    /\ logged' = Append(logged, StartedEntry(simulationState))
    /\ calls' = 0
    /\ UNCHANGED <<page, varsA, productionChart, efficiencyChart,
                   operatingMode, ticks, edits, appended>>

\* function startSimulation()
StartSimulation ==
    /\ page = "B"
    /\ IF ~simulationState.isRunning
       THEN /\ TimerIds \ timers # {}
            /\ simulationState' = [simulationState EXCEPT !.isRunning = TRUE]
            /\ simulationInterval' = SetInterval(timers)
            /\ timers' = timers \cup {SetInterval(timers)}
            /\ eventLog' = LogEvent(eventLog, StartedEntry(simulationState))
            /\ logged' = Append(logged, StartedEntry(simulationState))
       ELSE UNCHANGED <<simulationState, simulationInterval, timers,
                        eventLog, logged>>
    /\ calls' = 0
    /\ UNCHANGED <<page, varsA, productionChart, efficiencyChart,
                   operatingMode, ticks, edits, appended>>

\* function pauseSimulation()
PauseSimulation ==
    /\ page = "B"
    /\ simulationState' = Paused(simulationState)
    /\ timers' = PausedTimers(simulationState, timers, simulationInterval)
    /\ eventLog' = LogEvents(eventLog, PausedEntries(simulationState))
    /\ logged' = logged \o PausedEntries(simulationState)
    /\ calls' = 0
    /\ UNCHANGED <<page, varsA, simulationInterval, productionChart,
                   efficiencyChart, operatingMode, ticks, edits, appended>>

\* resetSimulation() of page B, up to its calculatePlantState call
ResetState(s) ==
    [Paused(s) EXCEPT
       !.time = 0, !.powerInput = 1000, !.loadFactor = 100,
       !.targetPressure = 50, !.storageLevel = 7500,
       !.storageAmount = 3750000, !.history = EmptyHistory]

\* function resetSimulation() of page B (lines 479-528)
ResetSimulation(n) ==
    /\ page = "B"
    /\ timers' = PausedTimers(simulationState, timers, simulationInterval)
    /\ simulationState' = CalculatePlantState(ResetState(simulationState), n)
    /\ operatingMode' = "steady"
    /\ productionChart' = EmptyChart
    /\ efficiencyChart' = EmptyChart
    /\ eventLog' = LogEvent(<<ResetEntry>>, ResetEntry)
    /\ logged' = <<ResetEntry, ResetEntry>>
    /\ calls' = 1
    /\ ticks' = 0
    /\ appended' = <<>>
    /\ UNCHANGED <<page, varsA, simulationInterval, edits>>

\* powerInput.addEventListener('input', ...)
SetPowerInput(v, n) ==
    /\ page = "B"
    /\ Edit
    /\ LET s == [simulationState EXCEPT !.powerInput = v]
       IN  /\ simulationState' = RecomputeIfRunning(s, n)
           /\ calls' = CallsIfRunning(s)
    /\ UNCHANGED <<varsA, timers, simulationInterval, productionChart,
                   efficiencyChart, operatingMode, eventLog, logged>>

\* loadFactor.addEventListener('input', ...)
SetLoadFactor(v, n) ==
    /\ page = "B"
    /\ Edit
    /\ LET s == [simulationState EXCEPT !.loadFactor = v]
       IN  /\ simulationState' = RecomputeIfRunning(s, n)
           /\ calls' = CallsIfRunning(s)
    /\ UNCHANGED <<varsA, timers, simulationInterval, productionChart,
                   efficiencyChart, operatingMode, eventLog, logged>>

\* targetPressure.addEventListener('input', ...)
SetTargetPressure(v, n) ==
    /\ page = "B"
    /\ Edit
    /\ LET s == [simulationState EXCEPT !.targetPressure = v]
       IN  /\ simulationState' = RecomputeIfRunning(s, n)
           /\ calls' = CallsIfRunning(s)
    /\ UNCHANGED <<varsA, timers, simulationInterval, productionChart,
                   efficiencyChart, operatingMode, eventLog, logged>>

\* operatingMode.addEventListener('change', ...): the user has picked m
SetMode(m, n) ==
    /\ page = "B"
    /\ Edit
    /\ operatingMode' = m
    /\ eventLog' = LogEvent(eventLog, ModeEntry(simulationState, m))
    /\ logged' = Append(logged, ModeEntry(simulationState, m))
    /\ LET s == [simulationState EXCEPT !.mode = m]
       IN  /\ simulationState' = RecomputeIfRunning(s, n)
           /\ calls' = CallsIfRunning(s)
    /\ UNCHANGED <<varsA, timers, simulationInterval, productionChart,
                   efficiencyChart>>

\* The switch of loadScenario on the state record.
ScenarioState(s, name) ==
    CASE name = "renewable-drop" -> [s EXCEPT !.powerInput = 400]
      [] name = "peak-demand" ->
           [s EXCEPT !.powerInput = 1800, !.loadFactor = 100]
      [] name = "emergency" ->
           [Paused(s) EXCEPT !.powerInput = 0, !.loadFactor = 0]
      [] OTHER -> s

\* The switch of loadScenario on the timers: only 'emergency' pauses.
ScenarioTimers(s, ts, h, name) ==
    IF name = "emergency" THEN PausedTimers(s, ts, h) ELSE ts

\* function loadScenario(scenarioName)
LoadScenario(name, n) ==
    /\ page = "B"
    /\ Edit
    /\ timers' = ScenarioTimers(simulationState, timers, simulationInterval, name)
    /\ eventLog' = LogEvents(eventLog, ScenarioEntries(simulationState, name))
    /\ logged' = logged \o ScenarioEntries(simulationState, name)
    /\ LET s == ScenarioState(simulationState, name)
       IN  /\ simulationState' = RecomputeIfRunning(s, n)
           /\ calls' = CallsIfRunning(s)
    /\ UNCHANGED <<varsA, simulationInterval, productionChart,
                   efficiencyChart, operatingMode>>

\* simulationState.time += 1
Advance(s) == [s EXCEPT !.time = s.time + 1]

\* The state the timer callback leaves before its chart update:
\* time += 1; addVariability(); calculatePlantState()
Stepped(s, r, n) == CalculatePlantState(AddVariability(Advance(s), r), n)

\* A chart update that is due at the fifth second only.
ChartDueOnce(t) == t = CHART_PERIOD

\* if (simulationState.time % 5 === 0)
ChartDue(t) == t % CHART_PERIOD = 0

\* The callback startSimulation hands to setInterval (lines 443-464), run
\* for the active timer id.
TickB(id, r, n) ==
    /\ page = "B"
    /\ id \in timers
    /\ LET s == Stepped(simulationState, r, n)
       IN  IF ChartDue(s.time)
           THEN /\ simulationState' = UpdateChartData(s)
                /\ productionChart' = ProductionChartOf(UpdateChartData(s).history)
                /\ efficiencyChart' = EfficiencyChartOf(UpdateChartData(s).history)
                /\ appended' = Append(appended, SampleB(s))
           ELSE /\ simulationState' = s
                /\ UNCHANGED <<productionChart, efficiencyChart, appended>>
    /\ eventLog' = LogEvents(eventLog, CheckAlerts(simulationState'))
    /\ logged' = logged \o CheckAlerts(simulationState')
    /\ calls' = 1
    /\ ticks' = ticks + 1
    /\ UNCHANGED <<page, varsA, timers, simulationInterval, operatingMode, edits>>

(***************************************************************************)
(* Page A: the state, the chart buffers and the handlers (lines 1-307).    *)
(***************************************************************************)
\* let state = { ... }
InitialState ==
    [running |-> FALSE, time |-> 0, solar |-> 600, wind |-> 400,
     grid |-> 0, load |-> 80, mode |-> "optimal"]

\* const totalPower = state.solar + state.wind + state.grid
TotalPower(s) == s.solar + s.wind + s.grid

\* (totalPower * 0.98 * (state.load / 100) * 16).toFixed(0)
H2ProdA(s) == ToFixed((TotalPower(s) * s.load * 1568) \div 100, 1000, 1)

\* (70 - state.load * 0.02).toFixed(1)
EfficiencyA(s) == ToFixed(7000 - s.load * 2, 100, 10)

\* (350 - efficiency * 2).toFixed(0), efficiency being the string above
CostA(s) == ToFixed(3500 - EfficiencyA(s) * 2, 10, 1)

\* (state.grid / totalPower * 0.5).toFixed(1) of updateDisplay, in tenths;
\* with totalPower 0 the quotient is 0/0 (NaN) or x/0 (Infinity).
CarbonA(s) ==
    IF TotalPower(s) = 0 THEN NonFinite
    ELSE ToFixed((s.grid * 50) \div TotalPower(s), 100, 10)

\* updateCharts shifting the labels and leaving the datasets unshifted.
PushChartLabelsOnly(c, n, label, x0, x1) ==
    [labels |-> IF n > HISTORY_CAP THEN Shift(Push(c.labels, label))
                ELSE Push(c.labels, label),
     d0 |-> Push(c.d0, x0), d1 |-> Push(c.d1, x1)]

\* One push and the "> 20" eviction of updateCharts on one chart: the test
\* reads chart1.data.labels.length, passed as n, for both charts.
PushChart(c, n, label, x0, x1) ==
    IF n > HISTORY_CAP
    THEN [labels |-> Shift(Push(c.labels, label)),
          d0 |-> Shift(Push(c.d0, x0)), d1 |-> Shift(Push(c.d1, x1))]
    ELSE [labels |-> Push(c.labels, label),
          d0 |-> Push(c.d0, x0), d1 |-> Push(c.d1, x1)]

\* function updateCharts(): chart1.data afterwards
Chart1After(c, s) ==
    PushChart(c, Len(c.labels) + 1, TimeLabel(s.time), TotalPower(s), H2ProdA(s))

\* function updateCharts(): chart2.data afterwards
Chart2After(c, n, s) ==
    PushChart(c, n, TimeLabel(s.time), EfficiencyA(s), CostA(s))

\* function runSimulation()
RunSimulation ==
    /\ page = "A"
    /\ IF state.running
       THEN UNCHANGED <<state, interval, timers, log, logged>>
       ELSE /\ TimerIds \ timers # {}
            /\ state' = [state EXCEPT !.running = TRUE]
            /\ interval' = SetInterval(timers)
            /\ timers' = timers \cup {SetInterval(timers)}
            /\ log' = AddLog(log, LogEntry("Simulation STARTED", ""))
            /\ logged' = Append(logged, LogEntry("Simulation STARTED", ""))
    /\ calls' = 0
    /\ UNCHANGED <<page, chart1, chart2, varsB, ticks, edits, appended>>

\* if (interval) clearInterval(interval)
Cleared(ts, h) == IF h # 0 THEN ClearInterval(ts, h) ELSE ts

\* function resetSimulation() of page A (lines 89-110)
ResetSimulationA ==
    /\ page = "A"
    /\ timers' = Cleared(timers, interval)
    /\ state' = [state EXCEPT !.running = FALSE, !.time = 0, !.solar = 600,
                              !.wind = 400, !.grid = 0, !.load = 80]
    /\ log' = AddLog(log, LogEntry("System RESET", ""))
    /\ logged' = Append(logged, LogEntry("System RESET", ""))
    /\ calls' = 0
    /\ ticks' = 0
    /\ UNCHANGED <<page, interval, chart1, chart2, varsB, edits, appended>>

\* emergencyStop() zeroing the time as resetSimulation does.
EmergencyStopRewinding ==
    /\ page = "A"
    /\ Edit
    /\ timers' = Cleared(timers, interval)
    /\ state' = [state EXCEPT !.running = FALSE, !.time = 0, !.solar = 0,
                              !.wind = 0, !.grid = 0, !.load = 0]
    /\ log' = AddLog(log, LogEntry("EMERGENCY SHUTDOWN", ""))
    /\ logged' = Append(logged, LogEntry("EMERGENCY SHUTDOWN", ""))
    /\ calls' = 0
    /\ UNCHANGED <<interval, chart1, chart2, varsB>>

\* function emergencyStop()
EmergencyStop ==
    /\ page = "A"
    /\ Edit
    /\ timers' = Cleared(timers, interval)
    /\ state' = [state EXCEPT !.running = FALSE, !.solar = 0, !.wind = 0,
                              !.grid = 0, !.load = 0]
    /\ log' = AddLog(log, LogEntry("EMERGENCY SHUTDOWN", ""))
    /\ logged' = Append(logged, LogEntry("EMERGENCY SHUTDOWN", ""))
    /\ calls' = 0
    /\ UNCHANGED <<interval, chart1, chart2, varsB>>

\* The five 'input' / 'change' listeners of setupControls: field = value
SetControlA(field, v) ==
    /\ page = "A"
    /\ Edit
    /\ state' = [state EXCEPT ![field] = v]
    /\ IF field = "mode"
       THEN /\ log' = AddLog(log, LogEntry("Mode changed to: ", v))
            /\ logged' = Append(logged, LogEntry("Mode changed to: ", v))
       ELSE UNCHANGED <<log, logged>>
    /\ calls' = 0
    /\ UNCHANGED <<timers, interval, chart1, chart2, varsB>>

\* "Add variability": if (Math.random() > 0.9) solar = max(0, solar + jitter)
Variability(s, r1, r2) ==
    IF r1 > 90
    THEN [s EXCEPT !.solar = Max(0, s.solar + (r2 * 2 - 100))]
    ELSE s

\* The callback runSimulation hands to setInterval (lines 68-85), run for
\* the active timer id.
TickA(id, r1, r2) ==
    /\ page = "A"
    /\ id \in timers
    /\ LET s == Variability([state EXCEPT !.time = state.time + 1], r1, r2)
       IN  /\ state' = s
           /\ IF ChartDue(s.time)
              THEN /\ chart1' = Chart1After(chart1, s)
                   /\ chart2' = Chart2After(chart2, Len(chart1.labels) + 1, s)
              ELSE UNCHANGED <<chart1, chart2>>
    /\ calls' = 0
    /\ ticks' = ticks + 1
    /\ UNCHANGED <<page, timers, interval, log, varsB, edits, appended, logged>>

(***************************************************************************)
(* The environment: what the user enters and what Math.random() returns.   *)
(***************************************************************************)
\* Values of Math.random(), in hundredths: the least, and one above every
\* threshold the source compares a draw with (0.5, 0.7, 0.9).
Rand == {0, 99}

\* A run in which every draw is 0.
Quiet == {0}

\* The draws of one calculatePlantState call that the runs explore: the four
\* draws at the same level, each level of R.
Level(R) == {n \in Draws(R) : \A f \in DOMAIN n : n[f] = n.efficiency}

PowerValues == {200, 2000}

LoadValues == {0, 50}

PressureValues == {30}

ControlsA == {"solar", "wind", "grid", "load"}

ControlValuesA == {0, 50}

\* The options of page A's mode selector other than the default are not in
\* the source; one other option stands for them.
ModesA == {"optimal", "other"}

Init ==
    /\ page \in {"A", "B"}
    /\ timers = {}
    /\ state = InitialState
    /\ interval = 0
    /\ chart1 = EmptyChart
    /\ chart2 = EmptyChart
    /\ simulationState = InitialSimulationState
    /\ simulationInterval = 0
    /\ productionChart = EmptyChart
    /\ efficiencyChart = EmptyChart
    /\ operatingMode = "steady"
    /\ log = <<>>
    /\ eventLog = <<InitializedEntry>>
    /\ calls = 0
    /\ ticks = 0
    /\ edits = 0
    /\ appended = <<>>
    /\ logged = IF page = "B" THEN <<InitializedEntry>> ELSE <<>>

\* The user's commands on page B that edit no control.
ButtonsB(R) ==
    \/ StartSimulation
    \/ PauseSimulation
    \/ \E n \in Level(R) : ResetSimulation(n)

\* The user's edits of page B's controls, with the draws of R.
EditsB(R) ==
    \/ \E v \in PowerValues, n \in Level(R) : SetPowerInput(v, n)
    \/ \E v \in LoadValues, n \in Level(R) : SetLoadFactor(v, n)
    \/ \E v \in PressureValues, n \in Level(R) : SetTargetPressure(v, n)
    \/ \E m \in ModesB, n \in Level(R) : SetMode(m, n)
    \/ \E name \in ScenarioNames, n \in Level(R) : LoadScenario(name, n)

\* The user's commands on page A that edit no control.
ButtonsA ==
    \/ RunSimulation
    \/ ResetSimulationA

\* The user's edits of page A's controls.
EditsA ==
    \/ EmergencyStop
    \/ \E f \in ControlsA, v \in ControlValuesA :
          SetControlA(f, IF f = "load" THEN v ELSE v * 10)
    \/ \E m \in ModesA : SetControlA("mode", m)

\* The entries of a Start, Pause or Run button the log of the page shows
\* (page A's log is never cleared: all its entries count).
PressesShown ==
    IF page = "B"
    THEN Cardinality({i \in DOMAIN eventLog :
            eventLog[i].message \in {"Simulation STARTED", "Simulation PAUSED"}})
    ELSE Len(log)

\* The buttons that start and stop, explored while the log shows fewer than
\* max presses; page B's Reset clears the log and is always explored.
PressesB(max) ==
    /\ PressesShown < max
    /\ (StartSimulation \/ PauseSimulation)

PressesA(max) ==
    /\ PressesShown < max
    /\ ButtonsA

ResetB(R) == \E n \in Level(R) : ResetSimulation(n)

\* A timer period elapses: the callback of an active timer runs.
TimerB(R, limit) ==
    /\ simulationState.time < limit
    /\ \E id \in timers, r \in R, n \in Level(R) : TickB(id, r, n)

TimerA(R, limit) ==
    /\ state.time < limit
    /\ \E id \in timers, r1 \in R, r2 \in R : TickA(id, r1, r2)

\* Every command and every draw, over a short run.
Next ==
    \/ PressesB(MaxEvents)
    \/ PressesA(MaxEvents)
    \/ ResetB(Rand)
    \/ (edits < MaxEdits /\ EditsB(Rand))
    \/ (edits < MaxEdits /\ EditsA)
    \/ TimerB(Rand, MaxTime)
    \/ TimerA(Rand, MaxTime)

Spec == Init /\ [][Next]_vars

\* The edits of the long runs: the scenarios that change the plotted power.
EditsLong ==
    \E name \in {"renewable-drop", "emergency"}, n \in Level(Quiet) :
       LoadScenario(name, n)

\* Long runs, with every draw 0: the chart buffers fill and evict.
NextLong ==
    \/ PressesB(MaxEventsLong)
    \/ PressesA(MaxEventsLong)
    \/ ResetB(Quiet)
    \/ (edits < MaxEditsLong /\ EditsLong)
    \/ TimerB(Quiet, MaxTimeLong)
    \/ TimerA(Quiet, MaxTimeLong)

SpecLong == Init /\ [][NextLong]_vars

\* Page B's long runs under the browser's timer: while an interval timer is
\* active its callback keeps being run (setInterval fires every second).
InitB == Init /\ page = "B"

NextLive ==
    \/ PressesB(MaxEventsLong)
    \/ ResetB(Quiet)
    \/ TimerB(Quiet, MaxTimeLong)

SpecLive ==
    InitB /\ [][NextLive]_vars /\ WF_vars(TimerB(Quiet, MaxTimeLong))

\* Runs long enough to plot a point, with every draw 0 and every edit.
NextMid ==
    \/ PressesB(MaxEvents)
    \/ PressesA(MaxEvents)
    \/ ResetB(Quiet)
    \/ (edits < MaxEdits /\ EditsB(Quiet))
    \/ (edits < MaxEdits /\ EditsA)
    \/ TimerB(Quiet, MaxTimeMid)
    \/ TimerA(Quiet, MaxTimeMid)

SpecMid == Init /\ [][NextMid]_vars

(***************************************************************************)
(* Runs that start with the storage nearly full.  Page B, started at load  *)
(* and left alone in steady mode with every draw 0, repeats itself from    *)
(* its second tick on: each later tick adds the same amount to the storage *)
(* and, every fifth, the same sample but for its label.  AfterQuietTicks   *)
(* is the state that run has reached after k ticks, in closed form.        *)
(***************************************************************************)
QuietDraw == [temperature |-> 0, efficiency |-> 0, purity |-> 0, pressure |-> 0]

\* After Start and two timer callbacks.
Settled ==
    Stepped(Stepped([InitialSimulationState EXCEPT !.isRunning = TRUE],
                    0, QuietDraw), 0, QuietDraw)

\* Everything that run has appended to the history after k ticks.
QuietAppended(k) ==
    [i \in 1..(k \div CHART_PERIOD) |->
        [SampleB(Settled) EXCEPT !.time = TimeLabel(i * CHART_PERIOD)]]

\* The last 20 of them, as the history record.
QuietHistory(k) ==
    LET all  == QuietAppended(k)
        from == Max(1, Len(all) - HISTORY_CAP + 1)
    IN  [f \in DOMAIN EmptyHistory |->
            [i \in 1..(Len(all) - from + 1) |-> all[from + i - 1][f]]]

\* The readings checkAlerts tests after k of those ticks (k >= 2).
QuietReadings(k) ==
    LET stor == Min(Settled.storageAmount
                      + (k - 2) * (Settled.h2Production \div 3600),
                    MAX_STORAGE * 1000)
    IN  [Settled EXCEPT !.time = k,
                        !.storageAmount = stor,
                        !.storageLevel = (stor * 10) \div MAX_STORAGE]

\* The ticks of that run, up to the k-th, that log an alert: the storage
\* alert, on every tick from the one that takes the level over 95 on.
QuietAlertTicks(k) == {j \in 2..k : CheckAlerts(QuietReadings(j)) # <<>>}

\* Everything that run has logged after k ticks, in order.
QuietLogged(k) ==
    LET n == Cardinality(QuietAlertTicks(k))
    IN  [i \in 1..(n + 2) |->
           IF i = 1 THEN InitializedEntry
           ELSE IF i = 2 THEN StartedEntry(InitialSimulationState)
           ELSE Head(CheckAlerts(QuietReadings(k - n + i - 2)))]

AfterQuietTicks(k) ==
    LET stor == Min(Settled.storageAmount
                      + (k - 2) * (Settled.h2Production \div 3600),
                    MAX_STORAGE * 1000)
    IN  [Settled EXCEPT !.time = k,
                        !.storageAmount = stor,
                        !.storageLevel = (stor * 10) \div MAX_STORAGE,
                        !.history = QuietHistory(k)]

InitNearFull ==
    /\ page = "B"
    /\ timers = {SetInterval({})}
    /\ state = InitialState
    /\ interval = 0
    /\ chart1 = EmptyChart
    /\ chart2 = EmptyChart
    /\ simulationState = AfterQuietTicks(NearFullTime)
    /\ simulationInterval = SetInterval({})
    /\ productionChart = ProductionChartOf(QuietHistory(NearFullTime))
    /\ efficiencyChart = EfficiencyChartOf(QuietHistory(NearFullTime))
    /\ operatingMode = "steady"
    /\ log = <<>>
    /\ eventLog = NewestFirst(QuietLogged(NearFullTime), EVENT_CAP)
    /\ calls = 1
    /\ ticks = NearFullTime
    /\ edits = 0
    /\ appended = QuietAppended(NearFullTime)
    /\ logged = QuietLogged(NearFullTime)

\* Every command and every draw of page B, over the ticks that follow.
NextNearFull ==
    \/ PressesB(MaxEventsLong)
    \/ ResetB(Rand)
    \/ (edits < MaxEdits /\ EditsB(Rand))
    \/ (simulationState.time >= NearFullTime
          /\ TimerB(Rand, NearFullTime + MaxTime))

SpecNearFull == InitNearFull /\ [][NextNearFull]_vars

\* Page B started at load and left alone for k callbacks, every draw 0.
InitAfterQuietTicks(k) ==
    /\ page = "B"
    /\ timers = {SetInterval({})}
    /\ state = InitialState
    /\ interval = 0
    /\ chart1 = EmptyChart
    /\ chart2 = EmptyChart
    /\ simulationState = AfterQuietTicks(k)
    /\ simulationInterval = SetInterval({})
    /\ productionChart = ProductionChartOf(QuietHistory(k))
    /\ efficiencyChart = EfficiencyChartOf(QuietHistory(k))
    /\ operatingMode = "steady"
    /\ log = <<>>
    /\ eventLog = NewestFirst(QuietLogged(k), EVENT_CAP)
    /\ calls = 1
    /\ ticks = k
    /\ edits = 0
    /\ appended = QuietAppended(k)
    /\ logged = QuietLogged(k)

\* Runs that start shortly before the first minute is over: the callbacks
\* that follow include the 60th, the one the optimized and carbon modes
\* act on.
InitNearMinute == InitAfterQuietTicks(NearMinuteTime)

NextNearMinute ==
    \/ PressesB(MaxEventsMinute)
    \/ ResetB(Rand)
    \/ (edits < MaxEditsMinute /\ EditsB(Rand))
    \/ (simulationState.time >= NearMinuteTime
          /\ TimerB(Rand, NearMinuteTime + MaxTime))

SpecNearMinute == InitNearMinute /\ [][NextNearMinute]_vars

(***************************************************************************)
(* A fourth starting point, for the alerts: the quiet run just before the  *)
(* storage level passes 95 %.  The load slider's range is set in the page  *)
(* markup, which is not part of the source; its handler stores whatever    *)
(* integer the control delivers, and only values above 100 take the        *)
(* temperature over 85 (from 134) or the efficiency under 60 (from 201).   *)
(***************************************************************************)
AlertLoadValues == {0, 100, 150, 250}

InitNearAlert == InitAfterQuietTicks(NearAlertTime)

NextAlerts ==
    \/ PressesB(MaxEventsLong)
    \/ ResetB(Rand)
    \/ (edits < MaxEditsAlerts
          /\ \E v \in AlertLoadValues, n \in Level(Rand) : SetLoadFactor(v, n))
    \/ (simulationState.time >= NearAlertTime
          /\ TimerB(Rand, NearAlertTime + MaxTimeAlerts))

SpecAlerts == InitNearAlert /\ [][NextAlerts]_vars

(***************************************************************************)
(* The logs filled past their caps: the buttons of both pages, pressed     *)
(* until MaxLogged (page A: MaxLoggedA) entries have been logged, with     *)
(* page B's clock running for MaxTimeLog ticks.                            *)
(***************************************************************************)
NextLog ==
    \/ (Len(logged) < MaxLogged /\ (StartSimulation \/ PauseSimulation))
    \/ (Len(logged) < MaxLoggedA /\ ButtonsA)
    \/ ResetB(Quiet)
    \/ TimerB(Quiet, MaxTimeLog)

SpecLog == Init /\ [][NextLog]_vars

(***************************************************************************)
(* The claims.                                                             *)
(***************************************************************************)
\* Every series the charts plot: page B's five history arrays and the
\* arrays of its two charts, page A's two charts.
AllSeries ==
    {simulationState.history.time, simulationState.history.power,
     simulationState.history.production, simulationState.history.efficiency,
     simulationState.history.cost,
     productionChart.labels, productionChart.d0, productionChart.d1,
     efficiencyChart.labels, efficiencyChart.d0, efficiencyChart.d1,
     chart1.labels, chart1.d0, chart1.d1,
     chart2.labels, chart2.d0, chart2.d1}

\* C1: in every reachable state every history and chart series holds at
\* most 20 points.
C1_SeriesAtMostCap == \A s \in AllSeries : Len(s) <= HISTORY_CAP

\* C1, witness: page B has appended more than 20 samples and holds 20.
C1_Witness ==
    /\ Len(appended) > HISTORY_CAP
    /\ Len(simulationState.history.time) = HISTORY_CAP

\* The i-th retained sample of page B's history.
HistorySample(i) ==
    [time |-> simulationState.history.time[i],
     power |-> simulationState.history.power[i],
     production |-> simulationState.history.production[i],
     efficiency |-> simulationState.history.efficiency[i],
     cost |-> simulationState.history.cost[i]]

\* C2: once more than 20 samples have been appended since the last Reset,
\* the history holds exactly the last 20 of them, in the order appended.
C2_MostRecentKept ==
    Len(appended) > HISTORY_CAP =>
        /\ Len(simulationState.history.time) = HISTORY_CAP
        /\ \A i \in 1..HISTORY_CAP :
              HistorySample(i) = appended[Len(appended) - HISTORY_CAP + i]

\* C2, witness: two samples have been evicted, and the oldest retained
\* sample differs from the newest.
C2_Witness ==
    /\ Len(appended) = HISTORY_CAP + 2
    /\ HistorySample(1) # HistorySample(HISTORY_CAP)

\* C3: in every reachable state the parallel series have the same length:
\* page B's five history arrays, and the six arrays of page A's two charts.
C3_SeriesInStep ==
    /\ \A f \in DOMAIN simulationState.history :
          Len(simulationState.history[f]) = Len(simulationState.history.time)
    /\ \A c \in {chart1, chart2} :
          \A f \in DOMAIN c : Len(c[f]) = Len(chart1.labels)

\* C3, witness: page A's charts are full and a Reset has just zeroed the time.
C3_Witness ==
    /\ page = "A"
    /\ Len(chart2.d1) = HISTORY_CAP
    /\ state.time = 0

\* C4: page B's storage never exceeds MAX_STORAGE, and no step that leaves
\* the simulation running (a timer callback, a control edit) lowers it.
C4_StorageMonotoneBounded ==
    /\ [](simulationState.storageAmount <= MAX_STORAGE * 1000)
    /\ [][(simulationState.isRunning /\ simulationState'.isRunning) =>
            simulationState'.storageAmount >= simulationState.storageAmount]_vars

\* C4, witness: a timer callback has filled the storage to MAX_STORAGE.
C4_Witness ==
    /\ simulationState.isRunning
    /\ simulationState.time > NearFullTime
    /\ simulationState.storageAmount = MAX_STORAGE * 1000

\* A Reset of either page.
ResetStep ==
    \/ \E n \in Level(Rand) : ResetSimulation(n)
    \/ ResetSimulationA

\* The default state the claim documents, for the page loaded.
DefaultState ==
    IF page = "B"
    THEN /\ ~simulationState.isRunning
         /\ simulationState.time = 0
         /\ simulationState.powerInput = 1000
         /\ simulationState.loadFactor = 100
         /\ simulationState.targetPressure = 50
         /\ simulationState.history = EmptyHistory
         /\ productionChart = EmptyChart
         /\ efficiencyChart = EmptyChart
    ELSE /\ ~state.running
         /\ state.time = 0
         /\ state.solar = 600
         /\ state.wind = 400
         /\ state.grid = 0
         /\ state.load = 80
         /\ chart1 = EmptyChart
         /\ chart2 = EmptyChart

\* C5: Reset yields the documented default state: not running, time 0,
\* every control input at its default, history and chart buffers empty.
C5_ResetYieldsDefault == [][ResetStep => DefaultState']_vars

\* C6: page B's time changes only by a timer callback (by exactly 1, and only
\* while running) or by Reset (to 0); Start and Pause keep it; so it equals
\* the number of callbacks run since the last Reset.
C6_TimeCountsTicks ==
    [][page = "B" =>
         /\ ticks' = ticks => simulationState'.time = simulationState.time
         /\ ticks' = ticks + 1 =>
               /\ simulationState.isRunning
               /\ simulationState'.time = simulationState.time + 1
         /\ ticks' \in {ticks, ticks + 1, 0}
         /\ simulationState'.time = ticks']_vars

\* C6, witness: page B is paused after two callbacks, its time still 2.
C6_Witness ==
    /\ page = "B"
    /\ ~simulationState.isRunning
    /\ simulationState.time = 2
    /\ ticks = 2

\* The running flag of the page loaded.
Running == IF page = "B" THEN simulationState.isRunning ELSE state.running

\* An emergency stop: page A's handler, page B's 'emergency' scenario.
EmergencyStep ==
    \/ EmergencyStop
    \/ \E n \in Level(Rand) : LoadScenario("emergency", n)

\* Every control input of the page loaded is 0.
InputsZeroed ==
    IF page = "B"
    THEN /\ simulationState.powerInput = 0
         /\ simulationState.loadFactor = 0
         /\ simulationState.targetPressure = 0
    ELSE /\ state.solar = 0
         /\ state.wind = 0
         /\ state.grid = 0
         /\ state.load = 0

\* C7: an emergency stop while running clears the running flag, sets every
\* control input to 0 and leaves no timer to fire.
C7_EmergencyStopZeroes ==
    [][(EmergencyStep /\ Running) =>
          (~Running /\ InputsZeroed /\ timers = {})']_vars

\* C8: at most one interval timer is active, and one is active exactly when
\* the running flag of the page is true.
C8_OneTimerIffRunning ==
    /\ Cardinality(timers) <= 1
    /\ (timers # {}) <=> Running

\* C8, witness: page B is running again after a pause (callbacks have run,
\* the last command made no recompute), on a single timer.
C8_Witness ==
    /\ page = "B"
    /\ simulationState.isRunning
    /\ ticks > 0
    /\ calls = 0
    /\ timers = {simulationInterval}

\* C9: a timer callback runs only while the running flag is true: none
\* fires between a Pause, Reset or emergency stop and the next Start.
C9_NoTickWhileStopped == [][ticks' = ticks + 1 => Running]_vars

\* C9, witness: page B is stopped after a callback has run, no timer left.
C9_Witness ==
    /\ page = "B"
    /\ ~simulationState.isRunning
    /\ simulationState.time > 0
    /\ timers = {}

ControlFields == {"powerInput", "loadFactor", "targetPressure", "mode"}

\* One of page B's four control-input setters runs.
SetterStep ==
    \E n \in Level(Rand) :
       \/ \E v \in PowerValues : SetPowerInput(v, n)
       \/ \E v \in LoadValues : SetLoadFactor(v, n)
       \/ \E v \in PressureValues : SetTargetPressure(v, n)
       \/ \E m \in ModesB : SetMode(m, n)

\* s and t differ at most in one control input.
OneControlWritten(s, t) ==
    \E f \in ControlFields : \A g \in DOMAIN s \ {f} : t[g] = s[g]

\* C10: a control-input setter makes exactly one recompute when the
\* simulation runs (one production value from the efficiency held before,
\* one storage increment); when it does not run, the setter writes the
\* control input and nothing else.
C10_SetterRecomputesOnce ==
    [][(edits' = edits + 1 /\ SetterStep) =>
         IF simulationState.isRunning
         THEN /\ calls' = 1
              /\ simulationState'.h2Production =
                    H2Production(simulationState'.powerInput,
                                 simulationState'.loadFactor,
                                 simulationState.efficiency)
              /\ simulationState'.storageAmount =
                    StorageAfter(simulationState.storageAmount,
                                 simulationState'.h2Production)
         ELSE /\ calls' = 0
              /\ OneControlWritten(simulationState, simulationState')]_vars

\* C10, witness: the power slider was moved while running, before any
\* callback: the recompute that made the production shown is the setter's.
C10_Witness ==
    /\ page = "B"
    /\ simulationState.isRunning
    /\ ticks = 0
    /\ edits = 1
    /\ calls = 1
    /\ simulationState.powerInput = 200

\* Page B as loaded and started: the state the first timer callback finds.
StartedFromLoad == [InitialSimulationState EXCEPT !.isRunning = TRUE]

\* The first timer callback after the page loaded runs.
FirstTick == simulationState = StartedFromLoad /\ ticks' = ticks + 1

\* C11, as the source has it: the first tick from the initial state (steady,
\* powerInput 100, loadFactor 100) leaves h2Production = 100*1*10*68.5/100
\* = 685, the formula with the efficiency held before the tick, which is
\* 68.5 in the initial state.
C11_FirstTickProduction ==
    [][FirstTick =>
         /\ simulationState'.h2Production = 685000
         /\ simulationState'.h2Production =
               H2Production(simulationState.powerInput,
                            simulationState.loadFactor,
                            simulationState.efficiency)]_vars

\* C11, as claimed: the first tick leaves h2Production = 700.
C11_FirstTickProduction700 ==
    [][FirstTick => simulationState'.h2Production = 700000]_vars

\* C11, witness: the state after that first tick, every draw 0.
C11_Witness ==
    /\ page = "B"
    /\ ticks = 1
    /\ simulationState.time = 1
    /\ simulationState.h2Production = 685000
    /\ simulationState.efficiency = 6500
    /\ simulationState.storageAmount = 3750000 + 685000 \div 3600

\* The simulated time and the chart buffers of the page loaded.
TimeAndBuffers ==
    IF page = "B"
    THEN <<simulationState.time, simulationState.history,
           productionChart, efficiencyChart>>
    ELSE <<state.time, chart1, chart2>>

\* C12: an emergency stop (page A's handler, page B's 'emergency' scenario)
\* leaves the simulated time and the history and chart buffers as they were.
C12_EmergencyKeepsTimeAndHistory ==
    [][EmergencyStep => TimeAndBuffers' = TimeAndBuffers]_vars

\* C12, witness: page A has been stopped by the emergency handler with a
\* point on its charts and its time past 5.
C12_Witness ==
    /\ page = "A"
    /\ edits = 1
    /\ ~state.running
    /\ state.load = 0
    /\ state.time > CHART_PERIOD
    /\ Len(chart1.labels) > 0

\* The divisors that are not literals: totalPower in page A's updateDisplay,
\* simulationState.efficiency in page B's calculatePlantState.
Divisors ==
    IF page = "B" THEN {simulationState.efficiency} ELSE {TotalPower(state)}

\* The metrics those divisions produce: page A's carbon intensity, which
\* every handler that writes state re-renders from it, and page B's cost.
DividedMetrics ==
    IF page = "B" THEN {simulationState.cost} ELSE {CarbonA(state)}

\* C13: in every reachable state every division has a non-zero divisor and
\* no metric is non-finite.
C13_NoNonFiniteMetric ==
    /\ 0 \notin Divisors
    /\ NonFinite \notin DividedMetrics

\* The fields calculatePlantState writes.
DerivedFields ==
    {"h2Production", "temperature", "powerConsumption", "purity",
     "efficiency", "flowRate", "cost", "storageLevel", "storageAmount",
     "pressure"}

Derived(s) == [f \in DerivedFields |-> s[f]]

\* Two states to take other field values from: the initial one, and one
\* that a noisy tick in variable mode has left.
Donors ==
    {InitialSimulationState,
     Stepped([StartedFromLoad EXCEPT !.mode = "variable", !.loadFactor = 50],
             99, [temperature |-> 99, efficiency |-> 99,
                  purity |-> 99, pressure |-> 99])}

\* The states that agree with s on every field of Keep, one other field
\* holding what a donor holds.
Variants(s, Keep) ==
    {[s EXCEPT ![f] = d[f]] : f \in DOMAIN s \ Keep, d \in Donors}

\* Recomputing from s and from each of those states, with the same draws,
\* gives the same derived outputs.
SameOutputs(s, Keep) ==
    \A t \in Variants(s, Keep), n \in Level(Rand) :
       Derived(CalculatePlantState(t, n)) = Derived(CalculatePlantState(s, n))

\* C14, as the source has it: the derived outputs of a recompute depend only
\* on powerInput, loadFactor, targetPressure, the draws, the previous
\* storageAmount and the previous efficiency (the production is computed
\* from the efficiency of the call before).
C14_OutputsFromInputsStorageEfficiency ==
    SameOutputs(simulationState,
                {"powerInput", "loadFactor", "targetPressure",
                 "storageAmount", "efficiency"})

\* C14, as claimed: they depend only on powerInput, loadFactor,
\* targetPressure, the draws and the previous storageAmount.
C14_OutputsFromInputsStorage ==
    SameOutputs(simulationState,
                {"powerInput", "loadFactor", "targetPressure",
                 "storageAmount"})

\* C14, witness: a recompute has just run on a running plant whose other
\* fields differ from both donors' and whose production is not 0.
C14_Witness ==
    /\ page = "B"
    /\ calls = 1
    /\ simulationState.isRunning
    /\ simulationState.h2Production > 0
    /\ \A d \in Donors :
          /\ simulationState.h2Production # d.h2Production
          /\ simulationState.temperature # d.temperature
          /\ simulationState.time # d.time

\* A timer callback of page B runs.
TickStepB == page = "B" /\ ticks' = ticks + 1

\* C16: a tick in variable mode moves powerInput by a jitter of at most 10
\* and clamps the result, so that 20 <= powerInput <= 200 after it whatever
\* powerInput was before.
C16_VariableJitterClamped ==
    [][(TickStepB /\ simulationState.mode = "variable") =>
         /\ simulationState'.powerInput >= 200
         /\ simulationState'.powerInput <= 2000
         /\ \E j \in -100..100 :
               simulationState'.powerInput =
                  Max(200, Min(2000, simulationState.powerInput + j))]_vars

\* C16, witness: the 'emergency' scenario had set powerInput and loadFactor
\* to 0; a tick in variable mode has brought powerInput up to 20.
C16_Witness ==
    /\ page = "B"
    /\ simulationState.mode = "variable"
    /\ simulationState.isRunning
    /\ calls = 1
    /\ ticks > NearMinuteTime
    /\ simulationState.loadFactor = 0
    /\ simulationState.powerInput = 200

\* C17: a tick never changes loadFactor, targetPressure or mode; in steady
\* mode it keeps powerInput; in optimized and carbon modes it changes
\* powerInput only when the time after the increment is a multiple of 60,
\* and then to powerInput*0.8 (optimized) or min(200, powerInput*1.1) (carbon).
C17_TickFrame ==
    [][TickStepB =>
         LET s == simulationState
             t == simulationState'
         IN  /\ t.loadFactor = s.loadFactor
             /\ t.targetPressure = s.targetPressure
             /\ t.mode = s.mode
             /\ s.mode = "steady" => t.powerInput = s.powerInput
             /\ s.mode = "optimized" =>
                   \/ t.powerInput = s.powerInput
                   \/ /\ t.time % 60 = 0
                      /\ t.powerInput = (s.powerInput * 8) \div 10
             /\ s.mode = "carbon" =>
                   \/ t.powerInput = s.powerInput
                   \/ /\ t.time % 60 = 0
                      /\ t.powerInput = Min(2000, (s.powerInput * 11) \div 10)]_vars

\* C17, witness: the 60th tick, in optimized mode, has cut powerInput from
\* 100 to 80.
C17_Witness ==
    /\ page = "B"
    /\ simulationState.mode = "optimized"
    /\ simulationState.time = 60
    /\ ticks = 60
    /\ calls = 1
    /\ edits = 1
    /\ simulationState.powerInput = 800

HistoryLen == Len(simulationState.history.time)

\* C19: if page B is started and never stopped again, then, the timer
\* callback being run as long as the timer is active, the history becomes
\* non-empty and reaches and stays at 20 samples: a running page B comes to
\* hold a sample, and to hold 20, unless it is stopped first; and a full
\* history stays full over every step that leaves the page running.
C19_HistoryFills ==
    /\ simulationState.isRunning ~>
          (~simulationState.isRunning \/ HistoryLen > 0)
    /\ simulationState.isRunning ~>
          (~simulationState.isRunning \/ HistoryLen = HISTORY_CAP)
    /\ [][(HistoryLen = HISTORY_CAP /\ simulationState'.isRunning) =>
             HistoryLen' = HISTORY_CAP]_vars

\* C19, witness: page B is running with a full history, a sample evicted.
C19_Witness ==
    /\ simulationState.isRunning
    /\ Len(simulationState.history.time) = HISTORY_CAP
    /\ Len(appended) = HISTORY_CAP + 1
    /\ simulationState.time > HISTORY_CAP * CHART_PERIOD

\* The points the page loaded retains, and its simulated time.
RetainedPoints ==
    IF page = "B" THEN Len(simulationState.history.time)
    ELSE Len(chart1.labels)

SimulatedTime == IF page = "B" THEN simulationState.time ELSE state.time

\* C20: in every reachable state the number of retained history points is
\* min(20, floor(time / 5)), on both pages.
C20_PointsMatchTime ==
    RetainedPoints = Min(HISTORY_CAP, SimulatedTime \div CHART_PERIOD)

\* What a step has added to the record of logged entries.
NewlyLogged == SubSeq(logged', Len(logged) + 1, Len(logged'))

\* The tick's state as it stands when checkAlerts is called.
BeforeAlerts(s, r, n) ==
    LET t == Stepped(s, r, n)
    IN  IF ChartDue(t.time) THEN UpdateChartData(t) ELSE t

\* The entries of a sequence that carry the given message.
WithMessage(entries, message) ==
    {i \in DOMAIN entries : entries[i].message = message}

\* C15: a tick of page B logs one warning for each of the three conditions
\* (temperature > 85, storageLevel > 95, efficiency < 60) that holds in the
\* state the tick leaves, whatever the other two are, and nothing else; the
\* state it leaves is the one computed before the alerts were evaluated.
C15_AlertsIndependent ==
    [][TickStepB =>
        LET s == simulationState'
            new == NewlyLogged
        IN  /\ Cardinality(WithMessage(new, "High temperature detected: "))
                 = (IF s.temperature > 8500 THEN 1 ELSE 0)
            /\ Cardinality(WithMessage(new, "Storage nearly full: "))
                 = (IF s.storageLevel > 9500 THEN 1 ELSE 0)
            /\ Cardinality(WithMessage(new, "Low efficiency: "))
                 = (IF s.efficiency < 6000 THEN 1 ELSE 0)
            /\ \A i \in DOMAIN new :
                  /\ new[i].type = "warning"
                  /\ new[i].time = TimeStr(s.time)
                  /\ new[i].message \in {"High temperature detected: ",
                                         "Storage nearly full: ",
                                         "Low efficiency: "}
            /\ eventLog' = LogEvents(eventLog, new)
            /\ \E r \in Rand, n \in Draws(Rand) :
                  s = BeforeAlerts(simulationState, r, n)]_vars

\* C15, witness: a tick has just left the temperature over 85 and the
\* storage over 95 % with the efficiency at 60 or more, and the two
\* warnings are the last entries logged.
C15_Witness ==
    /\ page = "B"
    /\ calls = 1
    /\ ticks > NearAlertTime
    /\ simulationState.temperature > 8500
    /\ simulationState.storageLevel > 9500
    /\ simulationState.efficiency >= 6000
    /\ Len(logged) >= 2
    /\ logged[Len(logged) - 1].message = "High temperature detected: "
    /\ logged[Len(logged)].message = "Storage nearly full: "
    /\ logged[Len(logged)].time = TimeStr(simulationState.time)

\* C18: each log holds at most its cap (50 on page B, 20 on page A) and is
\* exactly the most recent entries logged since it was last cleared, the
\* newest first: past the cap, the oldest are the ones missing.
C18_LogBoundedNewestFirst ==
    /\ Len(eventLog) <= EVENT_CAP
    /\ Len(log) <= LOG_CAP
    /\ page = "B" => eventLog = NewestFirst(logged, EVENT_CAP)
    /\ page = "A" => log = NewestFirst(logged, LOG_CAP)

\* C18, witness: page B has logged two entries more than the cap since the
\* last Reset, at different times of the clock, and the log is full.
C18_Witness ==
    /\ page = "B"
    /\ Len(logged) = EVENT_CAP + 2
    /\ Len(eventLog) = EVENT_CAP
    /\ eventLog[1] # eventLog[EVENT_CAP]
    /\ eventLog[1].time # logged[1].time

\* A Reset of page B.
ResetStepB == \E n \in Level(Rand) : ResetSimulation(n)

\* C21: page B's Reset leaves the default mode 'steady' in the simulation
\* state, the value it writes into the mode selector; so while the selector
\* shows 'steady' the timer callbacks leave powerInput alone.
C21_ResetRestoresSteady ==
    /\ [][ResetStepB =>
            /\ simulationState'.mode = "steady"
            /\ simulationState'.mode = operatingMode']_vars
    /\ [][(TickStepB /\ operatingMode = "steady") =>
            simulationState'.powerInput = simulationState.powerInput]_vars

\* A command of page B other than Reset: a control edit, a scenario, Start
\* or Pause.
CommandStepB ==
    \/ SetterStep
    \/ \E name \in ScenarioNames, n \in Level(Rand) : LoadScenario(name, n)
    \/ StartSimulation
    \/ PauseSimulation

\* C22: page B's storageAmount changes only on timer callbacks (and Reset):
\* no control edit, mode change, scenario, Start or Pause changes it, so it
\* integrates the production once per simulated second.
C22_StorageOncePerTick ==
    [][CommandStepB =>
          simulationState'.storageAmount = simulationState.storageAmount]_vars

\* C23: when page B's Reset returns, storageAmount is 3750 and storageLevel
\* is 75, the initial values, whatever state Reset was invoked from.
C23_ResetRestoresStorage ==
    [][ResetStepB =>
          /\ simulationState'.storageAmount = InitialSimulationState.storageAmount
          /\ simulationState'.storageLevel = InitialSimulationState.storageLevel]_vars

\* C24: every recompute of page B made with a load factor from 0 to 100
\* leaves the efficiency between 65 and 72 and the temperature between 65
\* and 82; the efficiency the cost is divided by is then not 0, and no
\* high-temperature or low-efficiency warning is logged.
C24_RangesWithinLoadRange ==
    [][(page = "B" /\ calls' >= 1 /\ simulationState'.loadFactor \in 0..100) =>
          /\ simulationState'.efficiency \in 6500..7200
          /\ simulationState'.temperature \in 6500..8200
          /\ simulationState'.efficiency # 0
          /\ simulationState'.cost # NonFinite
          /\ WithMessage(NewlyLogged, "High temperature detected: ") = {}
          /\ WithMessage(NewlyLogged, "Low efficiency: ") = {}]_vars

\* C24, witness: a tick at load factor 100 has left the efficiency at its
\* lowest, 65, with the temperature at 80, and has logged the storage
\* warning alone.
C24_Witness ==
    /\ page = "B"
    /\ calls = 1
    /\ ticks > NearAlertTime
    /\ simulationState.loadFactor = 100
    /\ simulationState.efficiency = 6500
    /\ simulationState.temperature = 8000
    /\ simulationState.storageLevel > 9500
    /\ logged[Len(logged)].message = "Storage nearly full: "
    /\ logged[Len(logged)].time = TimeStr(simulationState.time)
    /\ logged[Len(logged) - 1].time # TimeStr(simulationState.time)

\* C25: a timer callback of page B run in optimized or carbon mode with
\* powerInput between 20 and 200 leaves powerInput between 20 and 200, so
\* no number of such callbacks takes it out of that range.
C25_DriftKeepsPowerInRange ==
    [][(/\ TickStepB
        /\ simulationState.mode \in {"optimized", "carbon"}
        /\ simulationState.powerInput \in 200..2000) =>
          simulationState'.powerInput \in 200..2000]_vars

====
